---- MODULE Spec2Model ----
(***************************************************************************)
(* A model of the TTL cache of src/cache.go: a map of items guarded by a   *)
(* sync.RWMutex, a ticker-driven cleanup goroutine, and the buffered       *)
(* channel FinishedItems on which cleanup publishes reclaimed payloads.    *)
(*                                                                         *)
(* Time is a discrete clock `now`; one clock unit is half a second.        *)
(* Every critical section of a caller is one step (the mutex makes it      *)
(* atomic for every other user of the map); cleanup is split at each of    *)
(* its channel operations, because the consumers of FinishedItems do not   *)
(* take the mutex and interleave with them.                                *)
(***************************************************************************)
EXTENDS Integers, Sequences, FiniteSets, TLC

\* ---- bounds of the model ------------------------------------------------
\* Last instant of the clock.
MaxTime == 4

\* Largest ttl handed to NewCache (in clock units).
MaxTTL == 2

\* Capacity of FinishedItems.  NewCache sets Length to 10; the channel code
\* is the same for every capacity and the model runs it at a small one.
Length == 2

\* time.Second in clock units.
Second == 2

Keys == {"a", "b"}
Values == {"1", "2"}
Callers == {"c1", "c2"}
Sweeper == "sweep"
None == "none"
Durations == -1..MaxTTL

VARIABLES
  now,            \* time.Now()
  ttl,            \* cache.ttl
  items,          \* cache.items: a function from the present keys to items
  FinishedItems,  \* cache.FinishedItems: the buffered contents, oldest first
  mutex,          \* cache.mutex: [writer, readers]
  ticker,         \* the channel of time.Tick (buffer of one): TRUE = a tick is pending
  pc,             \* position of every caller and of the cleanup goroutine
  call,           \* the operation a caller is in: [op, key, data]
  ret,            \* what that operation returns: [data, found, count], and as
                  \* history what it met: had (the key was present) and, for
                  \* Count, stale (some entry was expired)
  todo,           \* cleanup: keys the range loop has not produced yet
  cur,            \* cleanup: data of the item being published
  touched,        \* history: per key, the time (set) and value (data) of the
                  \* last Set and the time of the last touch (at: that Set or
                  \* a later Get hit); forgotten when the key is deleted, or
                  \* reclaimed after ttl has run out since the touch
  reclaimed,      \* history: the last Length+1 payloads cleanup removed, oldest
                  \* first, kept for as long as no consumer has received
  received        \* history: some consumer has received from FinishedItems

vars == <<now, ttl, items, FinishedItems, mutex, ticker, pc, call, ret,
          todo, cur, touched, reclaimed, received>>

cacheVars == <<items, touched>>
sweepVars == <<todo, cur, reclaimed>>
callVars == <<call, ret>>

NoCall == [op |-> None, key |-> "", data |-> ""]
NoRet == [data |-> "", found |-> FALSE, count |-> -1, had |-> FALSE, stale |-> FALSE]
NoTouch == [at |-> -1, set |-> -1, data |-> ""]

\* ---- Item (item.go is not among the sources; modelled from the spec) -----
\* Item{data: data}
NewItem(data) == [data |-> data, expiresAt |-> 0]

\* item.touch(duration): expiresAt = now + ttl
touch(item, duration) == [item EXCEPT !.expiresAt = now + duration]

\* item.expired(): now > expiresAt
expired(item) == now > item.expiresAt

\* ---- sync.RWMutex ---------------------------------------------------------
Unlocked == [writer |-> None, readers |-> {}]
CanLock == mutex.writer = None /\ mutex.readers = {}
CanRLock == mutex.writer = None

\* ---- NewCache -------------------------------------------------------------
Init ==
  /\ now = 0
  /\ ttl \in Durations
  /\ items = << >>
  /\ FinishedItems = << >>
  /\ mutex = Unlocked
  /\ ticker = FALSE
  /\ pc = [p \in Callers \cup {Sweeper} |-> IF p = Sweeper THEN "wait" ELSE "idle"]
  /\ call = [c \in Callers |-> NoCall]
  /\ ret = [c \in Callers |-> NoRet]
  /\ todo = {}
  /\ cur = None
  /\ touched = [k \in Keys |-> NoTouch]
  /\ reclaimed = << >>
  /\ received = FALSE

\* ---- the clock and the ticker of startCleanupTimer -------------------------
\* duration := cache.ttl; if duration < time.Second { duration = time.Second }
TickerPeriod == IF ttl < Second THEN Second ELSE ttl

\* Time passes by one unit; the ticker (started at time 0) puts a tick in its
\* one-slot channel at every multiple of the period, dropping it when full.
Tick ==
  /\ now < MaxTime
  /\ now' = now + 1
  /\ ticker' = (ticker \/ ((now + 1) % TickerPeriod = 0))
  /\ UNCHANGED <<ttl, FinishedItems, mutex, pc, cacheVars, sweepVars, callVars, received>>

\* ---- callers ---------------------------------------------------------------
\* A caller thread invokes one of the four operations.
Invoke(c, o, k, d) ==
  /\ pc[c] = "idle"
  /\ pc' = [pc EXCEPT ![c] = "lock"]
  /\ call' = [call EXCEPT ![c] = [op |-> o, key |-> k, data |-> d]]
  /\ UNCHANGED <<now, ttl, FinishedItems, mutex, ticker, ret, cacheVars, sweepVars, received>>

Call(c) ==
  \/ \E k \in Keys, d \in Values : Invoke(c, "Set", k, d)
  \/ \E k \in Keys : Invoke(c, "Get", k, "")
  \/ \E k \in Keys : Invoke(c, "Delete", k, "")
  \/ Invoke(c, "Count", "", "")

\* Set that, on a present key, touches the stored item and keeps its data.
Set_keepData(c) ==
  /\ pc[c] = "lock" /\ call[c].op = "Set"
  /\ CanLock
  /\ mutex' = [mutex EXCEPT !.writer = c]
  /\ LET key == call[c].key
         item == IF key \in DOMAIN items THEN touch(items[key], ttl)
                 ELSE touch(NewItem(call[c].data), ttl)
     IN /\ items' = [k \in DOMAIN items \cup {key} |->
                       IF k = key THEN item ELSE items[k]]
        /\ touched' = [touched EXCEPT ![key] =
                          [at |-> now, set |-> now, data |-> call[c].data]]
        /\ ret' = [ret EXCEPT ![c] = [NoRet EXCEPT !.had = key \in DOMAIN items]]
  /\ pc' = [pc EXCEPT ![c] = "cs"]
  /\ UNCHANGED <<now, ttl, FinishedItems, ticker, call, sweepVars, received>>

\* Set that stores the new item without touching it.
Set_noTouch(c) ==
  /\ pc[c] = "lock" /\ call[c].op = "Set"
  /\ CanLock
  /\ mutex' = [mutex EXCEPT !.writer = c]
  /\ LET key == call[c].key
         item == NewItem(call[c].data)
     IN /\ items' = [k \in DOMAIN items \cup {key} |->
                       IF k = key THEN item ELSE items[k]]
        /\ touched' = [touched EXCEPT ![key] =
                          [at |-> now, set |-> now, data |-> call[c].data]]
        /\ ret' = [ret EXCEPT ![c] = [NoRet EXCEPT !.had = key \in DOMAIN items]]
  /\ pc' = [pc EXCEPT ![c] = "cs"]
  /\ UNCHANGED <<now, ttl, FinishedItems, ticker, call, sweepVars, received>>

\* Set: Lock; item := &Item{data}; item.touch(ttl); items[key] = item
Set(c) ==
  /\ pc[c] = "lock" /\ call[c].op = "Set"
  /\ CanLock
  /\ mutex' = [mutex EXCEPT !.writer = c]
  /\ LET key == call[c].key
         item == touch(NewItem(call[c].data), ttl)
     IN /\ items' = [k \in DOMAIN items \cup {key} |->
                       IF k = key THEN item ELSE items[k]]
        /\ touched' = [touched EXCEPT ![key] =
                          [at |-> now, set |-> now, data |-> call[c].data]]
        /\ ret' = [ret EXCEPT ![c] = [NoRet EXCEPT !.had = key \in DOMAIN items]]
  /\ pc' = [pc EXCEPT ![c] = "cs"]
  /\ UNCHANGED <<now, ttl, FinishedItems, ticker, call, sweepVars, received>>

\* Get that returns a present, unexpired item without touching it.
Get_noTouch(c) ==
  /\ pc[c] = "lock" /\ call[c].op = "Get"
  /\ CanLock
  /\ mutex' = [mutex EXCEPT !.writer = c]
  /\ LET key == call[c].key
         exists == key \in DOMAIN items
     IN IF ~exists \/ expired(items[key])
        THEN /\ ret' = [ret EXCEPT ![c] =
                          [NoRet EXCEPT !.data = "", !.found = FALSE,
                                        !.had = exists]]
             /\ UNCHANGED cacheVars
        ELSE /\ items' = items
             /\ touched' = [touched EXCEPT ![key].at = now]
             /\ ret' = [ret EXCEPT ![c] =
                          [NoRet EXCEPT !.data = items[key].data, !.found = TRUE,
                                        !.had = TRUE]]
  /\ pc' = [pc EXCEPT ![c] = "cs"]
  /\ UNCHANGED <<now, ttl, FinishedItems, ticker, call, sweepVars, received>>

\* Get that does not test item.expired().
Get_noExpiry(c) ==
  /\ pc[c] = "lock" /\ call[c].op = "Get"
  /\ CanLock
  /\ mutex' = [mutex EXCEPT !.writer = c]
  /\ LET key == call[c].key
         exists == key \in DOMAIN items
     IN IF ~exists
        THEN /\ ret' = [ret EXCEPT ![c] =
                          [NoRet EXCEPT !.data = "", !.found = FALSE,
                                        !.had = exists]]
             /\ UNCHANGED cacheVars
        ELSE /\ items' = [items EXCEPT ![key] = touch(items[key], ttl)]
             /\ touched' = [touched EXCEPT ![key].at = now]
             /\ ret' = [ret EXCEPT ![c] =
                          [NoRet EXCEPT !.data = items[key].data, !.found = TRUE,
                                        !.had = TRUE]]
  /\ pc' = [pc EXCEPT ![c] = "cs"]
  /\ UNCHANGED <<now, ttl, FinishedItems, ticker, call, sweepVars, received>>

\* Get that touches the item it finds expired before reporting the miss.
Get_touchOnMiss(c) ==
  /\ pc[c] = "lock" /\ call[c].op = "Get"
  /\ CanLock
  /\ mutex' = [mutex EXCEPT !.writer = c]
  /\ LET key == call[c].key
         exists == key \in DOMAIN items
     IN IF ~exists \/ expired(items[key])
        THEN /\ ret' = [ret EXCEPT ![c] =
                          [NoRet EXCEPT !.data = "", !.found = FALSE,
                                        !.had = exists]]
             /\ items' = IF exists
                          THEN [items EXCEPT ![key] = touch(items[key], ttl)]
                          ELSE items
             /\ UNCHANGED touched
        ELSE /\ items' = [items EXCEPT ![key] = touch(items[key], ttl)]
             /\ touched' = [touched EXCEPT ![key].at = now]
             /\ ret' = [ret EXCEPT ![c] =
                          [NoRet EXCEPT !.data = items[key].data, !.found = TRUE,
                                        !.had = TRUE]]
  /\ pc' = [pc EXCEPT ![c] = "cs"]
  /\ UNCHANGED <<now, ttl, FinishedItems, ticker, call, sweepVars, received>>

\* Get under the shared lock: RLock in place of Lock.
Get_rlock(c) ==
  /\ pc[c] = "lock" /\ call[c].op = "Get"
  /\ CanRLock
  /\ mutex' = [mutex EXCEPT !.readers = @ \cup {c}]
  /\ LET key == call[c].key
         exists == key \in DOMAIN items
     IN IF ~exists \/ expired(items[key])
        THEN /\ ret' = [ret EXCEPT ![c] =
                          [NoRet EXCEPT !.data = "", !.found = FALSE,
                                        !.had = exists]]
             /\ UNCHANGED cacheVars
        ELSE /\ items' = [items EXCEPT ![key] = touch(items[key], ttl)]
             /\ touched' = [touched EXCEPT ![key].at = now]
             /\ ret' = [ret EXCEPT ![c] =
                          [NoRet EXCEPT !.data = items[key].data, !.found = TRUE,
                                        !.had = TRUE]]
  /\ pc' = [pc EXCEPT ![c] = "cs"]
  /\ UNCHANGED <<now, ttl, FinishedItems, ticker, call, sweepVars, received>>

\* Get that counts an item as stale from the instant of its expiry on.
Get_staleAtExpiry(c) ==
  /\ pc[c] = "lock" /\ call[c].op = "Get"
  /\ CanLock
  /\ mutex' = [mutex EXCEPT !.writer = c]
  /\ LET key == call[c].key
         exists == key \in DOMAIN items
     IN IF ~exists \/ now >= items[key].expiresAt
        THEN /\ ret' = [ret EXCEPT ![c] =
                          [NoRet EXCEPT !.data = "", !.found = FALSE,
                                        !.had = exists]]
             /\ UNCHANGED cacheVars
        ELSE /\ items' = [items EXCEPT ![key] = touch(items[key], ttl)]
             /\ touched' = [touched EXCEPT ![key].at = now]
             /\ ret' = [ret EXCEPT ![c] =
                          [NoRet EXCEPT !.data = items[key].data, !.found = TRUE,
                                        !.had = TRUE]]
  /\ pc' = [pc EXCEPT ![c] = "cs"]
  /\ UNCHANGED <<now, ttl, FinishedItems, ticker, call, sweepVars, received>>

\* Get that deletes the expired item it finds.
Get_removeExpired(c) ==
  /\ pc[c] = "lock" /\ call[c].op = "Get"
  /\ CanLock
  /\ mutex' = [mutex EXCEPT !.writer = c]
  /\ LET key == call[c].key
         exists == key \in DOMAIN items
     IN IF ~exists \/ expired(items[key])
        THEN /\ ret' = [ret EXCEPT ![c] =
                          [NoRet EXCEPT !.data = "", !.found = FALSE,
                                        !.had = exists]]
             /\ items' = [k \in DOMAIN items \ {key} |-> items[k]]
             /\ touched' = [touched EXCEPT ![key] = NoTouch]
        ELSE /\ items' = [items EXCEPT ![key] = touch(items[key], ttl)]
             /\ touched' = [touched EXCEPT ![key].at = now]
             /\ ret' = [ret EXCEPT ![c] =
                          [NoRet EXCEPT !.data = items[key].data, !.found = TRUE,
                                        !.had = TRUE]]
  /\ pc' = [pc EXCEPT ![c] = "cs"]
  /\ UNCHANGED <<now, ttl, FinishedItems, ticker, call, sweepVars, received>>

\* Get: Lock; lookup; a present, unexpired item is touched and returned
Get(c) ==
  /\ pc[c] = "lock" /\ call[c].op = "Get"
  /\ CanLock
  /\ mutex' = [mutex EXCEPT !.writer = c]
  /\ LET key == call[c].key
         exists == key \in DOMAIN items
     IN IF ~exists \/ expired(items[key])
        THEN /\ ret' = [ret EXCEPT ![c] =
                          [NoRet EXCEPT !.data = "", !.found = FALSE,
                                        !.had = exists]]
             /\ UNCHANGED cacheVars
        ELSE /\ items' = [items EXCEPT ![key] = touch(items[key], ttl)]
             /\ touched' = [touched EXCEPT ![key].at = now]
             /\ ret' = [ret EXCEPT ![c] =
                          [NoRet EXCEPT !.data = items[key].data, !.found = TRUE,
                                        !.had = TRUE]]
  /\ pc' = [pc EXCEPT ![c] = "cs"]
  /\ UNCHANGED <<now, ttl, FinishedItems, ticker, call, sweepVars, received>>

\* Delete that sends the payload of the entry it removes on FinishedItems.
Delete_publish(c) ==
  /\ pc[c] = "lock" /\ call[c].op = "Delete"
  /\ CanLock
  /\ mutex' = [mutex EXCEPT !.writer = c]
  /\ LET key == call[c].key
     IN /\ items' = [k \in DOMAIN items \ {key} |-> items[k]]
        /\ touched' = [touched EXCEPT ![key] = NoTouch]
        /\ ret' = [ret EXCEPT ![c] = [NoRet EXCEPT !.had = key \in DOMAIN items]]
        /\ FinishedItems' =
             IF key \in DOMAIN items /\ Len(FinishedItems) < Length
             THEN Append(FinishedItems, items[key].data)
             ELSE FinishedItems
  /\ pc' = [pc EXCEPT ![c] = "cs"]
  /\ UNCHANGED <<now, ttl, ticker, call, sweepVars, received>>

\* Delete that empties the map when the key is present.
Delete_clear(c) ==
  /\ pc[c] = "lock" /\ call[c].op = "Delete"
  /\ CanLock
  /\ mutex' = [mutex EXCEPT !.writer = c]
  /\ LET key == call[c].key
     IN /\ items' = IF key \in DOMAIN items THEN << >> ELSE items
        /\ touched' = [touched EXCEPT ![key] = NoTouch]
        /\ ret' = [ret EXCEPT ![c] = [NoRet EXCEPT !.had = key \in DOMAIN items]]
  /\ pc' = [pc EXCEPT ![c] = "cs"]
  /\ UNCHANGED <<now, ttl, FinishedItems, ticker, call, sweepVars, received>>

\* Delete that leaves the entry in the map.
Delete_keepEntry(c) ==
  /\ pc[c] = "lock" /\ call[c].op = "Delete"
  /\ CanLock
  /\ mutex' = [mutex EXCEPT !.writer = c]
  /\ LET key == call[c].key
     IN /\ items' = items
        /\ touched' = [touched EXCEPT ![key] = NoTouch]
        /\ ret' = [ret EXCEPT ![c] = [NoRet EXCEPT !.had = key \in DOMAIN items]]
  /\ pc' = [pc EXCEPT ![c] = "cs"]
  /\ UNCHANGED <<now, ttl, FinishedItems, ticker, call, sweepVars, received>>

\* Delete: Lock; delete(items, key)
Delete(c) ==
  /\ pc[c] = "lock" /\ call[c].op = "Delete"
  /\ CanLock
  /\ mutex' = [mutex EXCEPT !.writer = c]
  /\ LET key == call[c].key
     IN /\ items' = [k \in DOMAIN items \ {key} |-> items[k]]
        /\ touched' = [touched EXCEPT ![key] = NoTouch]
        /\ ret' = [ret EXCEPT ![c] = [NoRet EXCEPT !.had = key \in DOMAIN items]]
  /\ pc' = [pc EXCEPT ![c] = "cs"]
  /\ UNCHANGED <<now, ttl, FinishedItems, ticker, call, sweepVars, received>>

\* Count that leaves the expired entries out.
Count_live(c) ==
  /\ pc[c] = "lock" /\ call[c].op = "Count"
  /\ CanRLock
  /\ mutex' = [mutex EXCEPT !.readers = @ \cup {c}]
  /\ ret' = [ret EXCEPT ![c] =
               [NoRet EXCEPT !.count = Cardinality({k \in DOMAIN items : ~expired(items[k])}),
                             !.stale = \E k \in DOMAIN items : expired(items[k])]]
  /\ pc' = [pc EXCEPT ![c] = "cs"]
  /\ UNCHANGED <<now, ttl, FinishedItems, ticker, call, cacheVars, sweepVars, received>>

\* Count: RLock; count := len(items)
Count(c) ==
  /\ pc[c] = "lock" /\ call[c].op = "Count"
  /\ CanRLock
  /\ mutex' = [mutex EXCEPT !.readers = @ \cup {c}]
  /\ ret' = [ret EXCEPT ![c] =
               [NoRet EXCEPT !.count = Cardinality(DOMAIN items),
                             !.stale = \E k \in DOMAIN items : expired(items[k])]]
  /\ pc' = [pc EXCEPT ![c] = "cs"]
  /\ UNCHANGED <<now, ttl, FinishedItems, ticker, call, cacheVars, sweepVars, received>>

\* Unlock (RUnlock for Count) and return to the caller.
Return(c) ==
  /\ pc[c] = "cs"
  /\ mutex' = IF call[c].op = "Count"
              THEN [mutex EXCEPT !.readers = @ \ {c}]
              ELSE [mutex EXCEPT !.writer = None]
  /\ pc' = [pc EXCEPT ![c] = "idle"]
  /\ call' = [call EXCEPT ![c] = NoCall]
  /\ ret' = [ret EXCEPT ![c] = NoRet]
  /\ UNCHANGED <<now, ttl, FinishedItems, ticker, cacheVars, sweepVars, received>>

\* ---- the cleanup goroutine ---------------------------------------------------
\* case <-ticker: cache.cleanup()
SweepTick ==
  /\ pc[Sweeper] = "wait"
  /\ ticker
  /\ ticker' = FALSE
  /\ pc' = [pc EXCEPT ![Sweeper] = "lock"]
  /\ UNCHANGED <<now, ttl, FinishedItems, mutex, cacheVars, sweepVars, callVars, received>>

\* cache.mutex.Lock(); for key, item := range cache.items
SweepLock ==
  /\ pc[Sweeper] = "lock"
  /\ CanLock
  /\ mutex' = [mutex EXCEPT !.writer = Sweeper]
  /\ todo' = DOMAIN items
  /\ pc' = [pc EXCEPT ![Sweeper] = "range"]
  /\ UNCHANGED <<now, ttl, FinishedItems, ticker, cacheVars, cur, reclaimed, callVars, received>>

\* The last Length+1 entries of the history of reclaimed payloads.
Record(h, data) ==
  IF received THEN << >>
  ELSE IF Len(h) > Length THEN Append(Tail(h), data) ELSE Append(h, data)

\* A range loop that deletes and publishes every item, expired or not.
SweepScan_noTest ==
  /\ pc[Sweeper] = "range"
  /\ \E key \in todo :
       /\ todo' = todo \ {key}
       /\ items' = [k \in DOMAIN items \ {key} |-> items[k]]
       /\ touched' = [touched EXCEPT ![key] =
                         IF now > @.at + ttl THEN NoTouch ELSE @]
       /\ cur' = items[key].data
       /\ reclaimed' = Record(reclaimed, items[key].data)
       /\ pc' = [pc EXCEPT ![Sweeper] =
                   IF Len(FinishedItems) = Length THEN "recv" ELSE "send"]
  /\ UNCHANGED <<now, ttl, FinishedItems, mutex, ticker, callVars, received>>

\* The range loop produces the next key, in any order.  An expired item is
\* deleted and, under the mutex still, the length of the channel is compared
\* with cache.Length to choose between discarding the oldest value first and
\* sending at once; an unexpired item is skipped.
SweepScan ==
  /\ pc[Sweeper] = "range"
  /\ \E key \in todo :
       /\ todo' = todo \ {key}
       /\ IF expired(items[key])
          THEN /\ items' = [k \in DOMAIN items \ {key} |-> items[k]]
               /\ touched' = [touched EXCEPT ![key] =
                                 IF now > @.at + ttl THEN NoTouch ELSE @]
               /\ cur' = items[key].data
               /\ reclaimed' = Record(reclaimed, items[key].data)
               /\ pc' = [pc EXCEPT ![Sweeper] =
                           IF Len(FinishedItems) = Length THEN "recv" ELSE "send"]
          ELSE UNCHANGED <<cacheVars, cur, reclaimed, pc>>
  /\ UNCHANGED <<now, ttl, FinishedItems, mutex, ticker, callVars, received>>

\* A receive that takes the newest value instead of the oldest.
SweepRecv_dropNewest ==
  /\ pc[Sweeper] = "recv"
  /\ Len(FinishedItems) > 0
  /\ FinishedItems' = SubSeq(FinishedItems, 1, Len(FinishedItems) - 1)
  /\ pc' = [pc EXCEPT ![Sweeper] = "send"]
  /\ UNCHANGED <<now, ttl, mutex, ticker, cacheVars, sweepVars, callVars, received>>

\* <-cache.FinishedItems: blocks while the channel is empty
SweepRecv ==
  /\ pc[Sweeper] = "recv"
  /\ Len(FinishedItems) > 0
  /\ FinishedItems' = Tail(FinishedItems)
  /\ pc' = [pc EXCEPT ![Sweeper] = "send"]
  /\ UNCHANGED <<now, ttl, mutex, ticker, cacheVars, sweepVars, callVars, received>>

\* cache.FinishedItems <- item.data: blocks while the channel is full
SweepSend ==
  /\ pc[Sweeper] = "send"
  /\ Len(FinishedItems) < Length
  /\ FinishedItems' = Append(FinishedItems, cur)
  /\ cur' = None
  /\ pc' = [pc EXCEPT ![Sweeper] = "range"]
  /\ UNCHANGED <<now, ttl, mutex, ticker, cacheVars, todo, reclaimed, callVars, received>>

\* The range loop is over: cache.mutex.Unlock()
SweepUnlock ==
  /\ pc[Sweeper] = "range"
  /\ todo = {}
  /\ mutex' = [mutex EXCEPT !.writer = None]
  /\ pc' = [pc EXCEPT ![Sweeper] = "wait"]
  /\ UNCHANGED <<now, ttl, FinishedItems, ticker, cacheVars, sweepVars, callVars, received>>

cleanup == SweepLock \/ SweepScan \/ SweepRecv \/ SweepSend \/ SweepUnlock

\* ---- consumers of FinishedItems ------------------------------------------------
\* Some consumer receives the oldest value; any number of consumers may do so
\* at any moment, without taking the mutex.
Receive ==
  /\ Len(FinishedItems) > 0
  /\ FinishedItems' = Tail(FinishedItems)
  /\ received' = TRUE
  /\ reclaimed' = << >>
  /\ UNCHANGED <<now, ttl, mutex, ticker, pc, cacheVars, todo, cur, callVars>>

\* The steps of the caller threads in C.
Client(C) ==
  \/ \E c \in C : Call(c)
  \/ \E c \in C : Set(c)
  \/ \E c \in C : Get(c)
  \/ \E c \in C : Delete(c)
  \/ \E c \in C : Count(c)
  \/ \E c \in C : Return(c)

\* The cache with one caller thread, the cleanup goroutine and the consumers.
Next ==
  \/ Tick
  \/ Client({"c1"})
  \/ SweepTick
  \/ cleanup
  \/ Receive

Spec == Init /\ [][Next]_vars

\* A cache of ttl 0 (an entry is stale one clock unit after its touch, so
\* cleanup has work at every tick), for the claims about contention and
\* scheduling.
ShortTTL == Init /\ ttl = 0

\* That cache with every caller thread.

ConcNext ==
  \/ Tick
  \/ Client(Callers)
  \/ SweepTick
  \/ cleanup
  \/ Receive

ConcSpec == ShortTTL /\ [][ConcNext]_vars

\* Scheduling: the clock advances, every runnable goroutine runs, and a
\* goroutine waiting for the mutex gets it once it is free often enough (the
\* starvation mode of sync.Mutex).  Callers need not call and consumers need
\* not receive.
Fairness ==
  /\ WF_vars(Tick)
  /\ WF_vars(SweepTick)
  /\ SF_vars(SweepLock)
  /\ WF_vars(SweepScan)
  /\ WF_vars(SweepRecv)
  /\ WF_vars(SweepSend)
  /\ WF_vars(SweepUnlock)
  /\ SF_vars(Set("c1") \/ Get("c1") \/ Delete("c1") \/ Count("c1"))
  /\ WF_vars(Return("c1"))

FairSpec == ShortTTL /\ [][Next]_vars /\ Fairness

\* ---- the scenario of one entry ---------------------------------------------
\* A cache of ttl one second on which thread c1 runs Set("a", "1") at time 0,
\* Get("a") half a second later, and after that Get("a") only once more than
\* a second and a half has passed (on this clock: from two seconds on); any
\* thread calls Count at any time.  Nobody receives from FinishedItems.
HalfSecond == Second \div 2

ScenarioInit == Init /\ ttl = Second

\* The clock stays at the instant of a scripted call until the call has run.
ScenarioTick ==
  /\ now = 0 => touched["a"].at = 0
  /\ now = HalfSecond =>
       /\ touched["a"].at = HalfSecond
       /\ ~(pc["c1"] = "lock" /\ call["c1"].op = "Get")
  /\ Tick

ScenarioCall ==
  \/ /\ now = 0 /\ touched["a"] = NoTouch
     /\ Invoke("c1", "Set", "a", "1")
  \/ /\ now = HalfSecond \/ now > HalfSecond + Second
     /\ touched["a"] # NoTouch \/ reclaimed # << >>
     /\ Invoke("c1", "Get", "a", "")
  \/ \E c \in Callers : Invoke(c, "Count", "", "")

\* The channel holds at most one value here, so cleanup never has to discard.
ScenarioNext ==
  \/ ScenarioTick
  \/ ScenarioCall
  \/ Set("c1")
  \/ Get("c1")
  \/ \E c \in Callers : Count(c)
  \/ \E c \in Callers : Return(c)
  \/ SweepTick
  \/ SweepLock
  \/ SweepScan
  \/ SweepSend
  \/ SweepUnlock

ScenarioSpec == ScenarioInit /\ [][ScenarioNext]_vars

\* ---- properties -----------------------------------------------------------------

\* C1: cleanup never waits on FinishedItems: it is never at its receive with
\* the channel empty, nor at its send with the channel full.
SweepBlocked ==
  \/ pc[Sweeper] = "recv" /\ Len(FinishedItems) = 0
  \/ pc[Sweeper] = "send" /\ Len(FinishedItems) = Length

C1_SweepNeverBlocks == ~SweepBlocked

\* C2: under fair scheduling every call that waits for the mutex gets it and
\* returns.
C2_NoOperationBlocks ==
  \A c \in Callers : (pc[c] = "lock") ~> (pc[c] = "idle")

\* Caller c runs the critical section of operation o in this step.
Did(c, o) == pc[c] = "lock" /\ pc'[c] = "cs" /\ call[c].op = o

\* Caller c is back from the critical section of o and has not returned yet.
Done(c, o) == pc[c] = "cs" /\ call[c].op = o

\* C3: a Get(k) at a time t1 inside the ttl window of the last touch of k (its
\* Set, or a later Get hit; no Delete since) returns the value of that Set with
\* found = true and moves the expiry to t1 + ttl, whatever cleanup did meanwhile.
C3_TouchExtendsLife ==
  [][\A c \in Callers : Did(c, "Get") =>
       LET k == call[c].key
       IN (touched[k] # NoTouch /\ touched[k].at <= now /\ now < touched[k].at + ttl)
            => /\ ret'[c].found
               /\ ret'[c].data = touched[k].data
               /\ k \in DOMAIN items'
               /\ items'[k].expiresAt = now + ttl]_vars

\* A Get hit later than the expiry that the Set gave the item.
C3_Witness ==
  \E c \in Callers :
    /\ Done(c, "Get") /\ ret[c].found
    /\ LET t == touched[call[c].key]
       IN t.at > t.set + ttl /\ ttl > 0 /\ items[call[c].key].expiresAt = t.at + ttl

\* C4: a Get(k) later than ttl after the last touch of k returns ("", false),
\* whether the entry is still in the map or not.
C4_Expiry ==
  [][\A c \in Callers : Did(c, "Get") =>
       LET k == call[c].key
       IN (\/ touched[k] # NoTouch /\ now > touched[k].at + ttl
           \/ k \notin DOMAIN items)
            => ~ret'[c].found /\ ret'[c].data = ""]_vars

\* A Get miss on an entry that is still in the map.
C4_Witness ==
  \E c \in Callers :
    /\ Done(c, "Get") /\ ~ret[c].found /\ ret[c].had
    /\ call[c].key \in DOMAIN items
    /\ now > touched[call[c].key].at + ttl

\* cleanup is between removing an item and having published it.
Publishing == pc[Sweeper] \in {"recv", "send"}

\* C5: FinishedItems never holds more than Length values; while no consumer
\* has received, it holds the reclaimed payloads in the order of their
\* removal, and once more than Length were reclaimed exactly the last Length.
C5_BoundedNotification ==
  /\ Len(FinishedItems) <= Length
  /\ (~received /\ ~Publishing) =>
       /\ Len(reclaimed) <= Length => FinishedItems = reclaimed
       /\ Len(reclaimed) > Length =>
            /\ Len(FinishedItems) = Length
            /\ FinishedItems = Tail(reclaimed)

\* More than Length payloads were reclaimed, no consumer received, and the
\* order of the retained ones shows.
C5_Witness ==
  /\ ~received /\ ~Publishing
  /\ Len(reclaimed) > Length
  /\ FinishedItems = Tail(reclaimed)
  /\ \E i \in 1..(Len(FinishedItems) - 1) : FinishedItems[i] # FinishedItems[i + 1]

\* A sweep is still to come: a tick is pending or will be, or cleanup waits
\* for the mutex.
SweepDue ==
  \/ ticker
  \/ pc[Sweeper] = "lock"
  \/ \E t \in (now + 1)..MaxTime : t % TickerPeriod = 0

\* C6: an entry that is expired when a sweep is still to come, or is running
\* and has not reached it, is eventually out of the map (or set anew).
C6_SweepRemovesStale ==
  \A k \in Keys :
    (/\ k \in DOMAIN items /\ expired(items[k])
     /\ (SweepDue \/ (pc[Sweeper] \in {"range", "recv", "send"} /\ k \in todo)))
      ~> (k \notin DOMAIN items \/ ~expired(items[k]))

\* C7: FinishedItems grows only by cleanup sending the payload of an item it
\* has just removed as expired; Set and Delete leave the channel alone.
C7_OnlySweepPublishes ==
  [][/\ \A c \in Callers :
         (Did(c, "Set") \/ Did(c, "Delete")) => FinishedItems' = FinishedItems
     /\ (FinishedItems' # FinishedItems /\ Len(FinishedItems') >= Len(FinishedItems))
          => /\ pc[Sweeper] = "send"
             /\ FinishedItems' = Append(FinishedItems, cur)
     /\ (cur' # cur /\ cur' # None)
          => /\ pc[Sweeper] = "range"
             /\ \E k \in DOMAIN items :
                  /\ k \notin DOMAIN items'
                  /\ expired(items[k])
                  /\ cur' = items[k].data]_vars

\* A Set or a Delete met a present key, with values that cleanup published
\* in the channel.
C7_Witness ==
  \E c \in Callers :
    /\ Done(c, "Set") \/ Done(c, "Delete")
    /\ ret[c].had
    /\ FinishedItems # << >>

\* C8: a Set on a present key leaves that key with the new value and the
\* expiry now + ttl, every other entry as it was, and the number of entries
\* unchanged.
C8_Overwrite ==
  [][\A c \in Callers : (Did(c, "Set") /\ call[c].key \in DOMAIN items) =>
       LET k == call[c].key
       IN /\ DOMAIN items' = DOMAIN items
          /\ Cardinality(DOMAIN items') = Cardinality(DOMAIN items)
          /\ items'[k] = [data |-> call[c].data, expiresAt |-> now + ttl]
          /\ \A j \in DOMAIN items \ {k} : items'[j] = items[j]]_vars

\* A Set has overwritten an entry while another entry is in the map.
C8_Witness ==
  \E c \in Callers :
    /\ Done(c, "Set") /\ ret[c].had
    /\ Cardinality(DOMAIN items) = 2
    /\ items[call[c].key].data = call[c].data

\* C9: Delete(k) takes exactly k out of the map and leaves FinishedItems
\* alone (nothing changes when k is absent, so a second Delete adds nothing),
\* and a Get(k) with no Set(k) since the Delete returns ("", false).
C9_DeleteIdempotence ==
  [][\A c \in Callers :
       LET k == call[c].key
       IN /\ Did(c, "Delete") =>
               /\ items' = [j \in DOMAIN items \ {k} |-> items[j]]
               /\ FinishedItems' = FinishedItems
               /\ k \notin DOMAIN items => items' = items
               /\ k \in DOMAIN items =>
                    Cardinality(DOMAIN items') = Cardinality(DOMAIN items) - 1
          /\ (Did(c, "Get") /\ touched[k] = NoTouch) =>
               ~ret'[c].found /\ ret'[c].data = ""]_vars

\* A Delete has removed a present key and another entry is still there.
C9_Witness ==
  \E c \in Callers :
    /\ Done(c, "Delete") /\ ret[c].had
    /\ call[c].key \notin DOMAIN items
    /\ items # << >>

\* C10: Count returns the number of keys in the map, expired ones included,
\* and a key leaves the map only by a Delete of it or by cleanup.
C10_CountIncludesExpired ==
  [][/\ \A c \in Callers :
         Did(c, "Count") => ret'[c].count = Cardinality(DOMAIN items)
     /\ \A k \in DOMAIN items :
         k \notin DOMAIN items' =>
           \/ \E c \in Callers : Did(c, "Delete") /\ call[c].key = k
           \/ pc[Sweeper] = "range" /\ k \in todo]_vars

\* Count has counted an entry that was expired.
C10_Witness ==
  \E c \in Callers :
    /\ Done(c, "Count") /\ ret[c].stale
    /\ ret[c].count >= 1

\* A key whose item was set or touched before now in a cache of ttl <= 0.
Outlived(k) == ttl <= 0 /\ touched[k] # NoTouch /\ now > touched[k].at

\* C11: the ticker fires at the multiples of max(ttl, Second) only; in a cache
\* of ttl <= 0 a Get later than the Set of its key misses, and once a tick
\* later than that Set has started a sweep the item leaves the map.
C11_NonPositiveTTL ==
  /\ [][/\ (ticker' /\ ~ticker) =>
            now' % (IF ttl > Second THEN ttl ELSE Second) = 0
        /\ \A c \in Callers :
            (Did(c, "Get") /\ Outlived(call[c].key)) =>
              ~ret'[c].found /\ ret'[c].data = ""]_vars
  /\ \A k \in Keys :
       (pc[Sweeper] = "lock" /\ k \in DOMAIN items /\ Outlived(k))
         ~> (k \notin DOMAIN items \/ ~Outlived(k))

\* The sweep of the first tick later than a second and a half is over.
LateSweepDone == now > HalfSecond + Second /\ ~ticker /\ pc[Sweeper] = "wait"

\* C12: in the scenario, the Get at half a second returns ("1", true) and
\* moves the expiry to a second and a half, so the entry survives the sweep of
\* the tick at one second; a Get later than a second and a half returns
\* ("", false); and once the sweep of the next tick is over the map is empty,
\* Count returns 0 and "1" is in FinishedItems.
C12_Scenario ==
  [][/\ (Did("c1", "Get") /\ now = HalfSecond) =>
          /\ ret'["c1"].found /\ ret'["c1"].data = "1"
          /\ items'["a"].expiresAt = HalfSecond + Second
     /\ (now' > HalfSecond /\ now' <= HalfSecond + Second) =>
          /\ "a" \in DOMAIN items'
          /\ items'["a"] = [data |-> "1", expiresAt |-> HalfSecond + Second]
     /\ (Did("c1", "Get") /\ now > HalfSecond + Second) =>
          ~ret'["c1"].found /\ ret'["c1"].data = ""
     /\ LateSweepDone' => items' = << >> /\ FinishedItems' = <<"1">>
     /\ \A c \in Callers :
          (Did(c, "Count") /\ LateSweepDone) => ret'[c].count = 0
     /\ pc'[Sweeper] # "recv"]_vars

\* Count has returned 0 after the late sweep, with "1" in the channel.
C12_Witness ==
  /\ \E c \in Callers : Done(c, "Count") /\ ret[c].count = 0
  /\ LateSweepDone
  /\ items = << >> /\ FinishedItems = <<"1">>

\* C13: a key leaves the map other than by its Delete only in a step of
\* cleanup that holds the mutex before and after, finds the item expired and
\* takes its payload for publication, later than ttl after the last touch.
C13_NoLiveReclaim ==
  [][\A k \in DOMAIN items :
       (/\ k \notin DOMAIN items'
        /\ ~\E c \in Callers : Did(c, "Delete") /\ call[c].key = k)
         => /\ pc[Sweeper] = "range"
            /\ mutex.writer = Sweeper /\ mutex'.writer = Sweeper
            /\ expired(items[k])
            /\ touched[k] # NoTouch /\ now > touched[k].at + ttl
            /\ cur' = items[k].data]_vars

\* cleanup has removed an item and has spared a live one in the same run.
C13_Witness ==
  /\ pc[Sweeper] \in {"recv", "send"} /\ cur # None
  /\ \E k \in DOMAIN items : k \notin todo /\ ~expired(items[k])

\* cleanup is between removing an item and having sent its payload, and in
\* this step it completes the send.
PublishStep == pc[Sweeper] \in {"recv", "send"} /\ pc'[Sweeper] = "range"

\* C14: every item cleanup removes goes on to be sent on FinishedItems in the
\* same run, once, before cleanup removes another item or ends the run.
C14_RemovalPublished ==
  /\ [][\A k \in DOMAIN items :
          (k \notin DOMAIN items' /\ pc[Sweeper] = "range")
            => (cur' = items[k].data /\ pc'[Sweeper] \in {"recv", "send"})]_vars
  /\ [][pc[Sweeper] \in {"recv", "send"} => items' = items]_vars
  /\ [][PublishStep =>
          (FinishedItems' = Append(FinishedItems, cur) /\ cur' = None)]_vars
  /\ [](pc[Sweeper] = "wait" => cur = None)
  /\ (cur # None) ~> (cur = None)

\* Caller c has run a Get(k) that missed on an entry still in the map.
MissedStale(c, k) ==
  Done(c, "Get") /\ call[c].key = k /\ ~ret[c].found /\ ret[c].had

\* C15: a Get on an absent or expired key returns ("", false) and changes
\* neither the map nor FinishedItems; the expired entry it met is reclaimed
\* by the sweep that is still to come (unless it is set anew or deleted).
C15_GetMissNoMutation ==
  /\ [][\A c \in Callers :
          (/\ Did(c, "Get")
           /\ \/ call[c].key \notin DOMAIN items
              \/ expired(items[call[c].key]))
            => (/\ ~ret'[c].found /\ ret'[c].data = ""
                /\ items' = items
                /\ FinishedItems' = FinishedItems)]_vars
  /\ \A k \in Keys :
       ((\E c \in Callers : MissedStale(c, k)) /\ SweepDue)
         ~> (k \notin DOMAIN items \/ ~expired(items[k]))

\* C16: the expiry of every item in the map is the time of its last touch
\* (its Set or its last Get hit) plus ttl, and it changes only in a Set or a
\* Get hit on that key.
C16_ExpiryInvariant ==
  /\ [](\A k \in DOMAIN items :
          touched[k] # NoTouch /\ items[k].expiresAt = touched[k].at + ttl)
  /\ [][\A k \in DOMAIN items \cap DOMAIN items' :
          items'[k].expiresAt # items[k].expiresAt
            => \E c \in Callers :
                 /\ call[c].key = k
                 /\ Did(c, "Set") \/ (Did(c, "Get") /\ ret'[c].found)]_vars

\* An item whose expiry a Get hit has moved past the one its Set gave it,
\* beside an item that was not touched since its Set.
C16_Witness ==
  /\ DOMAIN items = Keys
  /\ \E k \in Keys : touched[k].at > touched[k].set
  /\ \E k \in Keys : touched[k].at = touched[k].set /\ expired(items[k])

\* The callers inside the critical section of Set, Get or Delete, and cleanup
\* when it is inside its own.
Exclusive ==
  {c \in Callers : pc[c] = "cs" /\ call[c].op \in {"Set", "Get", "Delete"}}
    \cup (IF pc[Sweeper] \in {"range", "recv", "send"} THEN {Sweeper} ELSE {})

\* The callers inside the critical section of Count.
Shared == {c \in Callers : pc[c] = "cs" /\ call[c].op = "Count"}

\* C17: at most one of Set, Get, Delete and cleanup is inside its critical
\* section, and none of them is while a Count is reading; so two Get calls
\* never overlap, nor does a Get overlap cleanup.
C17_Serialized ==
  /\ Cardinality(Exclusive) <= 1
  /\ Exclusive # {} => Shared = {}

\* One thread is inside Get(k) while another waits to enter Get(k) and
\* cleanup waits for the mutex.
C17_Witness ==
  \E c, d \in Callers :
    /\ c # d
    /\ Done(c, "Get")
    /\ pc[d] = "lock" /\ call[d].op = "Get" /\ call[d].key = call[c].key
    /\ pc[Sweeper] = "lock"

\* The range loop of cleanup produces key k in this step.
Scans(k) == pc[Sweeper] = "range" /\ k \in todo /\ todo' = todo \ {k}

\* C18: an item is stale exactly when now > expiresAt: a Get on a present key
\* hits iff now <= expiresAt, and at now = expiresAt it refreshes the expiry;
\* cleanup keeps the item it scans iff now <= expiresAt.
C18_StrictExpiry ==
  /\ [][\A c \in Callers :
          (Did(c, "Get") /\ call[c].key \in DOMAIN items) =>
            LET k == call[c].key
            IN /\ ret'[c].found <=> now <= items[k].expiresAt
               /\ now = items[k].expiresAt =>
                    (ret'[c].found /\ items'[k].expiresAt = now + ttl)]_vars
  /\ [][\A k \in DOMAIN items :
          Scans(k) => (k \in DOMAIN items' <=> now <= items[k].expiresAt)]_vars

\* A Get has hit at the very instant of the expiry: with ttl one clock unit
\* a touch later than the Set can only be that.
C18_Witness ==
  \E c \in Callers :
    /\ Done(c, "Get") /\ ret[c].found
    /\ ttl = 1
    /\ touched[call[c].key].at = now
    /\ touched[call[c].key].at > touched[call[c].key].set

\* The reference map holds k: a Set of k that no Delete, no sweep removal and
\* no expiry has made it forget since.
RefLive(k) == touched[k] # NoTouch /\ now <= touched[k].at + ttl

\* C19: every Get answers as the reference map does: a hit with the value of
\* the last Set of the key when the reference holds it, the zero value and
\* found = false otherwise.
C19_GetAgreesWithReference ==
  [][\A c \in Callers : Did(c, "Get") =>
       LET k == call[c].key
       IN /\ ret'[c].found <=> RefLive(k)
          /\ ret'[c].data = (IF RefLive(k) THEN touched[k].data ELSE "")]_vars

\* A Get has hit while the other key holds a different value.
C19_Witness ==
  \E c \in Callers :
    /\ Done(c, "Get") /\ ret[c].found
    /\ \E j \in DOMAIN items :
         j # call[c].key /\ items[j].data # ret[c].data

Size(m) == Cardinality(DOMAIN m)

\* C20: Get and Count leave the key set and every payload as they are; a key
\* enters the map only in a Set of that key and leaves it only in a Delete of
\* that key or in the sweep; Set adds one to the cardinality exactly when its
\* key is new, Delete takes one off exactly when its key is present.
C20_KeySetFrame ==
  /\ [][\A c \in Callers : (Did(c, "Get") \/ Did(c, "Count")) =>
          /\ DOMAIN items' = DOMAIN items
          /\ \A k \in DOMAIN items : items'[k].data = items[k].data]_vars
  /\ [][\A k \in DOMAIN items' \ DOMAIN items :
          \E c \in Callers : Did(c, "Set") /\ call[c].key = k]_vars
  /\ [][\A k \in DOMAIN items \ DOMAIN items' :
          \/ \E c \in Callers : Did(c, "Delete") /\ call[c].key = k
          \/ Scans(k)]_vars
  /\ [][\A c \in Callers :
          /\ Did(c, "Set") =>
               (Size(items') =
                  Size(items) + (IF call[c].key \in DOMAIN items THEN 0 ELSE 1))
          /\ Did(c, "Delete") =>
               (Size(items') =
                  Size(items) - (IF call[c].key \in DOMAIN items THEN 1 ELSE 0))]_vars

\* A Get has missed on an expired entry that is still in the map beside the
\* entry of the other key.
C20_Witness ==
  \E c \in Callers :
    /\ Done(c, "Get") /\ ~ret[c].found
    /\ call[c].key \in DOMAIN items
    /\ Size(items) = 2
====
